---- MODULE Spec2Model ----
(***************************************************************************)
(* Model of src/preprocessing/pipeline.py (class Pipeline) and of          *)
(* remove_repeated_characters in src/preprocessing/steps.py.               *)
(*                                                                         *)
(* Python objects live on a heap: `lists` holds the list objects, `pipes`  *)
(* the Pipeline instances (each one a reference to a list object).  An     *)
(* invocation runs step by step on a call stack of Pipeline.__call__       *)
(* frames; the program is single-threaded, so no other operation runs      *)
(* while an invocation is in progress.                                     *)
(***************************************************************************)
EXTENDS Integers, Sequences, FiniteSets, TLC

VARIABLES
    lists,        \* heap of list objects: list id -> sequence of steps
    callerLists,  \* ids of the list objects the caller built and still holds
    pipes,        \* heap of Pipeline instances: pipeline id -> id of self.steps
    lastOp,       \* the operation that ran last, its arguments and return value
    prev,         \* lists and pipes as they were when that operation started
    status,       \* "idle", "running", "returned" or "raised"
    stack,        \* frames of Pipeline.__call__: [p: pipeline, i: loop position]
    value,        \* the local `value` of the running invocation / its result
    input,        \* the argument of the outermost invocation
    failure,      \* the exception that ended the invocation, or "none"
    log,          \* positions of the invoked pipeline whose step was called
    text,         \* argument of remove_repeated_characters
    out,          \* its result
    opA, opB, opC,\* operands of a three-way combination
    grp           \* results of the two groupings of opA | opB | opC

vars == <<lists, callerLists, pipes, lastOp, prev, status, stack, value, input,
          failure, log, text, out, opA, opB, opC, grp>>

heapVars == <<lists, callerLists, pipes>>
callVars == <<status, stack, value, input, failure, log>>
textVars == <<text, out>>
orVars   == <<opA, opB, opC, grp>>

----------------------------------------------------------------------------
(* Bounds *)

MaxPipes == 3        \* Pipeline instances on the heap
MaxItems == 4        \* list elements on the heap
MaxCallPipes == 3    \* Pipeline instances where invocations are explored
MaxCallItems == 2    \* list elements where invocations are explored
RecursionLimit == 2  \* frames of Pipeline.__call__ the interpreter allows
MaxOperand == 2      \* steps of a Pipeline operand of a three-way combination
MaxText == 4         \* characters of a text

----------------------------------------------------------------------------
(* Steps and values *)

\* Step callables the tests use: lambda x: x + 1 and str.
Fns == {"inc", "str"}

\* Names of the Pipeline instances when one is used as a step.
PipeRefs == <<"p1", "p2", "p3", "p4", "p5", "p6">>

Ref(p) == PipeRefs[p]

IsPipeline(s) == \E p \in 1..Len(PipeRefs) : PipeRefs[p] = s

Deref(s) == CHOOSE p \in 1..Len(PipeRefs) : PipeRefs[p] = s

\* A value is its type and the calls that produced it from the input.
InputTypes == {"int", "str"}

NoValue == [type |-> "none", hist |-> <<>>]

InputValue(x) == [type |-> x, hist |-> <<>>]

\* x + 1 raises TypeError on a str; str(x) accepts both.
Fails(f, v) == f = "inc" /\ v.type = "str"

ApplyFn(f, v) ==
    [type |-> IF f = "str" THEN "str" ELSE v.type, hist |-> Append(v.hist, f)]

----------------------------------------------------------------------------
(* Initial state *)

NoOp == [op |-> "none", self |-> 0, arg |-> "", list |-> 0, ret |-> 0]

IdleCall ==
    /\ status = "idle"
    /\ stack = <<>>
    /\ value = NoValue
    /\ input = "int"
    /\ failure = "none"
    /\ log = <<>>

\* An operand or result of |: a Pipeline with its steps, a bare callable,
\* or the TypeError the expression raised.
PipelineOf(ss) == [kind |-> "Pipeline", steps |-> ss, fn |-> ""]

CallableOf(f) == [kind |-> "callable", steps |-> <<>>, fn |-> f]

TypeErr == [kind |-> "TypeError", steps |-> <<>>, fn |-> ""]

Unset == [kind |-> "unset", steps |-> <<>>, fn |-> ""]

NoGroup == [left |-> Unset, right |-> Unset]

InitHeap ==
    /\ lists = <<>>
    /\ callerLists = {}
    /\ pipes = <<>>
    /\ lastOp = NoOp
    /\ prev = [lists |-> <<>>, pipes |-> <<>>]

InitText ==
    /\ text = <<>>
    /\ out = <<"unset">>

InitOr ==
    /\ opA = Unset
    /\ opB = Unset
    /\ opC = Unset
    /\ grp = NoGroup

Init ==
    /\ InitHeap
    /\ IdleCall
    /\ InitText
    /\ InitOr

ResetCall ==
    /\ status' = "idle"
    /\ stack' = <<>>
    /\ value' = NoValue
    /\ input' = "int"
    /\ failure' = "none"
    /\ log' = <<>>

Before == [lists |-> lists, pipes |-> pipes]

----------------------------------------------------------------------------
(* Pipeline.__init__ *)

RECURSIVE SumLen(_)
SumLen(ls) == IF ls = <<>> THEN 0 ELSE Len(Head(ls)) + SumLen(Tail(ls))

HeapSize == SumLen(lists)

\* The list literals over S that still fit on the heap.
StepLists(S, max) == UNION {[1..k -> S] : k \in 0..(max - HeapSize)}

Refs == {PipeRefs[p] : p \in 1..Len(pipes)}

\* Pipeline(steps) where steps is a list object the caller has just built.
ConstructNew(c, max, maxPipes) ==
    /\ status # "running"
    /\ HeapSize + Len(c) <= max
    /\ Len(pipes) < maxPipes
    /\ lists' = Append(lists, c)
    /\ callerLists' = callerLists \cup {Len(lists) + 1}
    /\ pipes' = Append(pipes, Len(lists) + 1)
    /\ lastOp' = [op |-> "init", self |-> Len(pipes) + 1, arg |-> "",
                  list |-> Len(lists) + 1, ret |-> Len(pipes) + 1]
    /\ prev' = Before
    /\ ResetCall
    /\ UNCHANGED <<textVars, orVars>>

\* Pipeline(steps) where steps is a list object the caller already holds.
ConstructShared(l) ==
    /\ status # "running"
    /\ Len(pipes) < MaxPipes
    /\ l \in callerLists
    /\ pipes' = Append(pipes, l)
    /\ lastOp' = [op |-> "init", self |-> Len(pipes) + 1, arg |-> "",
                  list |-> l, ret |-> Len(pipes) + 1]
    /\ prev' = Before
    /\ ResetCall
    /\ UNCHANGED <<lists, callerLists, textVars, orVars>>

Steps(p) == lists[pipes[p]]

----------------------------------------------------------------------------
(* Pipeline.add *)

\* A step put at the front of the list instead of its end.
ListPrepend(l, s) == [lists EXCEPT ![l] = <<s>> \o @]

\* self.steps.append(step)
ListAppend(l, s) == [lists EXCEPT ![l] = Append(@, s)]

Add(p, s, max) ==
    /\ status # "running"
    /\ p \in 1..Len(pipes)
    /\ HeapSize + 1 <= max
    /\ lists' = ListAppend(pipes[p], s)
    /\ lastOp' = [op |-> "add", self |-> p, arg |-> s, list |-> pipes[p],
                  ret |-> p]
    /\ prev' = Before
    /\ ResetCall
    /\ UNCHANGED <<callerLists, pipes, textVars, orVars>>

----------------------------------------------------------------------------
(* Pipeline.__or__ *)

\* The operands concatenated the wrong way round.
OrStepsSwapped(selfSteps, otherIsPipeline, otherSteps, other) ==
    IF otherIsPipeline
    THEN otherSteps \o selfSteps
    ELSE <<other>> \o selfSteps

\* The list the new Pipeline is built from.
OrSteps(selfSteps, otherIsPipeline, otherSteps, other) ==
    IF otherIsPipeline
    THEN selfSteps \o otherSteps
    ELSE selfSteps \o <<other>>

\* A combination that extends self.steps in place and wraps that list.
OrInPlace(p, other, max) ==
    /\ status # "running"
    /\ p \in 1..Len(pipes)
    /\ Len(pipes) < MaxPipes
    /\ IsPipeline(other) => Deref(other) \in 1..Len(pipes)
    /\ LET isP == IsPipeline(other)
           oSteps == IF isP THEN Steps(Deref(other)) ELSE <<>>
           new == OrSteps(Steps(p), isP, oSteps, other)
       IN  /\ HeapSize + Len(new) <= max
           /\ lists' = [lists EXCEPT ![pipes[p]] = new]
    /\ pipes' = Append(pipes, pipes[p])
    /\ lastOp' = [op |-> "or", self |-> p, arg |-> other,
                  list |-> pipes[p], ret |-> Len(pipes) + 1]
    /\ prev' = Before
    /\ ResetCall
    /\ UNCHANGED <<callerLists, textVars, orVars>>

\* p | Ref(q) for a Pipeline q, p | f for a callable f.
Or(p, other, max) ==
    /\ status # "running"
    /\ p \in 1..Len(pipes)
    /\ Len(pipes) < MaxPipes
    /\ IsPipeline(other) => Deref(other) \in 1..Len(pipes)
    /\ LET isP == IsPipeline(other)
           oSteps == IF isP THEN Steps(Deref(other)) ELSE <<>>
           new == OrSteps(Steps(p), isP, oSteps, other)
       IN  /\ HeapSize + Len(new) <= max
           /\ lists' = Append(lists, new)
    /\ pipes' = Append(pipes, Len(lists) + 1)
    /\ lastOp' = [op |-> "or", self |-> p, arg |-> other,
                  list |-> Len(lists) + 1, ret |-> Len(pipes) + 1]
    /\ prev' = Before
    /\ ResetCall
    /\ UNCHANGED <<callerLists, textVars, orVars>>

Next ==
    \/ \E c \in StepLists(Fns, MaxItems) : ConstructNew(c, MaxItems, MaxPipes)
    \/ \E l \in callerLists : ConstructShared(l)
    \/ \E p \in 1..Len(pipes), s \in Fns : Add(p, s, MaxItems)
    \/ \E p \in 1..Len(pipes), q \in 1..Len(pipes) : Or(p, Ref(q), MaxItems)
    \/ \E p \in 1..Len(pipes), f \in Fns : Or(p, f, MaxItems)

Spec == Init /\ [][Next]_vars

----------------------------------------------------------------------------
(* Pipeline.__call__ *)

Top == stack[Len(stack)]

TopSteps == Steps(Top.p)

Logged(i) == IF Len(stack) = 1 THEN Append(log, i) ELSE log

\* pipeline(input): value = input, the loop is about to start.
Call(p, x) ==
    /\ status # "running"
    /\ p \in 1..Len(pipes)
    /\ status' = "running"
    /\ stack' = <<[p |-> p, i |-> 1]>>
    /\ value' = InputValue(x)
    /\ input' = x
    /\ failure' = "none"
    /\ log' = <<>>
    /\ lastOp' = [op |-> "call", self |-> p, arg |-> x, list |-> pipes[p],
                  ret |-> 0]
    /\ prev' = Before
    /\ UNCHANGED <<heapVars, textVars, orVars>>

\* The for loop of a frame moves to its next step.
Advance(stk) ==
    [stk EXCEPT ![Len(stk)] = [@ EXCEPT !.i = @ + 1]]

\* The step is called and its result dropped.
StepApplyDiscard ==
    /\ status = "running"
    /\ Top.i <= Len(TopSteps)
    /\ ~IsPipeline(TopSteps[Top.i])
    /\ ~Fails(TopSteps[Top.i], value)
    /\ value' = value
    /\ stack' = Advance(stack)
    /\ log' = Logged(Top.i)
    /\ UNCHANGED <<heapVars, lastOp, prev, status, input, failure, textVars, orVars>>

\* value = step(value) for a function that returns.
StepApply ==
    /\ status = "running"
    /\ Top.i <= Len(TopSteps)
    /\ ~IsPipeline(TopSteps[Top.i])
    /\ ~Fails(TopSteps[Top.i], value)
    /\ value' = ApplyFn(TopSteps[Top.i], value)
    /\ stack' = Advance(stack)
    /\ log' = Logged(Top.i)
    /\ UNCHANGED <<heapVars, lastOp, prev, status, input, failure, textVars, orVars>>

\* The exception is caught and the loop goes on with the old value.
StepRaiseSwallowed ==
    /\ status = "running"
    /\ Top.i <= Len(TopSteps)
    /\ ~IsPipeline(TopSteps[Top.i])
    /\ Fails(TopSteps[Top.i], value)
    /\ stack' = Advance(stack)
    /\ log' = Logged(Top.i)
    /\ UNCHANGED <<heapVars, lastOp, prev, status, value, input, failure, textVars,
                   orVars>>

\* value = step(value) for a function that raises: no frame catches it.
StepRaise ==
    /\ status = "running"
    /\ Top.i <= Len(TopSteps)
    /\ ~IsPipeline(TopSteps[Top.i])
    /\ Fails(TopSteps[Top.i], value)
    /\ status' = "raised"
    /\ failure' = "TypeError"
    /\ value' = NoValue
    /\ stack' = <<>>
    /\ log' = Logged(Top.i)
    /\ UNCHANGED <<heapVars, lastOp, prev, input, textVars, orVars>>

\* The pipeline calls itself where it should call its step.
StepEnterSelf ==
    /\ status = "running"
    /\ Top.i <= Len(TopSteps)
    /\ IsPipeline(TopSteps[Top.i])
    /\ Len(stack) < RecursionLimit
    /\ stack' = Append(stack, [p |-> Top.p, i |-> 1])
    /\ log' = Logged(Top.i)
    /\ UNCHANGED <<heapVars, lastOp, prev, status, value, input, failure, textVars,
                   orVars>>

\* value = step(value) for a step that is a Pipeline: its __call__ starts.
StepEnter ==
    /\ status = "running"
    /\ Top.i <= Len(TopSteps)
    /\ IsPipeline(TopSteps[Top.i])
    /\ Len(stack) < RecursionLimit
    /\ stack' = Append(stack, [p |-> Deref(TopSteps[Top.i]), i |-> 1])
    /\ log' = Logged(Top.i)
    /\ UNCHANGED <<heapVars, lastOp, prev, status, value, input, failure, textVars,
                   orVars>>

\* The nested __call__ would exceed the interpreter's recursion limit.
StepOverflow ==
    /\ status = "running"
    /\ Top.i <= Len(TopSteps)
    /\ IsPipeline(TopSteps[Top.i])
    /\ Len(stack) >= RecursionLimit
    /\ status' = "raised"
    /\ failure' = "RecursionError"
    /\ value' = NoValue
    /\ stack' = <<>>
    /\ log' = Logged(Top.i)
    /\ UNCHANGED <<heapVars, lastOp, prev, input, textVars, orVars>>

\* The loop is exhausted: return value, to the calling frame if there is one.
StepReturn ==
    /\ status = "running"
    /\ Top.i > Len(TopSteps)
    /\ LET rest == SubSeq(stack, 1, Len(stack) - 1)
       IN  /\ stack' = IF rest = <<>> THEN rest ELSE Advance(rest)
           /\ status' = IF rest = <<>> THEN "returned" ELSE "running"
    /\ UNCHANGED <<heapVars, lastOp, prev, value, input, failure, log, textVars,
                   orVars>>

Run ==
    \/ StepApply
    \/ StepRaise
    \/ StepEnter
    \/ StepOverflow
    \/ StepReturn

NextCall ==
    \/ \E c \in StepLists(Fns \cup Refs, MaxCallItems) : ConstructNew(c, MaxCallItems, MaxCallPipes)
    \/ \E p \in 1..Len(pipes), s \in Fns \cup Refs : Add(p, s, MaxCallItems)
    \/ \E p \in 1..Len(pipes), x \in InputTypes : Call(p, x)
    \/ StepApply
    \/ StepRaise
    \/ StepEnter
    \/ StepOverflow
    \/ StepReturn

SpecCall == Init /\ [][NextCall]_vars

\* The interpreter keeps executing an invocation it has started.
SpecCallFair == SpecCall /\ WF_vars(Run)

----------------------------------------------------------------------------
(* Properties of the heap operations (specification Spec) *)

PrevSteps(p) == prev.lists[prev.pipes[p]]

WasPipe(p) == p \in 1..Len(prev.pipes)

\* C3: p | other returns a Pipeline whose steps are p.steps followed by
\* other.steps when other is a Pipeline, and p.steps followed by the single
\* element other when other is a callable.
C3_CombineConcatenates ==
    lastOp.op = "or" =>
        Steps(lastOp.ret) =
            IF IsPipeline(lastOp.arg)
            THEN PrevSteps(lastOp.self) \o PrevSteps(Deref(lastOp.arg))
            ELSE PrevSteps(lastOp.self) \o <<lastOp.arg>>

C3_Witness ==
    /\ lastOp.op = "or"
    /\ IsPipeline(lastOp.arg)
    /\ PrevSteps(lastOp.self) # <<>>
    /\ PrevSteps(Deref(lastOp.arg)) # <<>>
    /\ PrevSteps(lastOp.self) # PrevSteps(Deref(lastOp.arg))

\* C4: A | B returns a Pipeline instance that did not exist before, and
\* leaves every existing Pipeline with the same list holding the same steps,
\* also for A | A and for empty operands.
C4_CombineDoesNotMutate ==
    lastOp.op = "or" =>
        /\ ~WasPipe(lastOp.ret)
        /\ lastOp.ret \in 1..Len(pipes)
        /\ \A p \in 1..Len(prev.pipes) :
               /\ pipes[p] = prev.pipes[p]
               /\ Steps(p) = PrevSteps(p)
        /\ \A l \in 1..Len(prev.lists) : lists[l] = prev.lists[l]

C4_Witness ==
    /\ lastOp.op = "or"
    /\ lastOp.arg = Ref(lastOp.self)
    /\ PrevSteps(lastOp.self) # <<>>
    /\ \E q \in 1..Len(prev.pipes) : PrevSteps(q) = <<>>

\* C6: p.add(s) returns p itself, and p.steps is afterwards its former
\* sequence with s as the new last element.
C6_AddAppendsAndReturnsSelf ==
    lastOp.op = "add" =>
        /\ lastOp.ret = lastOp.self
        /\ pipes = prev.pipes
        /\ Steps(lastOp.self) = Append(PrevSteps(lastOp.self), lastOp.arg)

C6_Witness ==
    /\ lastOp.op = "add"
    /\ Len(Steps(lastOp.self)) >= 3
    /\ Steps(lastOp.self)[1] # lastOp.arg

\* C7: p.add(s) does not alter a list object the caller passed to a
\* constructor, and leaves every other Pipeline constructed from that list
\* as it was.
C7_AddLeavesCallerListAlone ==
    lastOp.op = "add" =>
        /\ \A l \in callerLists : lists[l] = prev.lists[l]
        /\ \A q \in 1..Len(pipes) :
               q # lastOp.self => Steps(q) = PrevSteps(q)

\* A pipeline that | returned: its list is none the caller built.
IsCombination(c) == pipes[c] \notin callerLists

\* C9: once a combination c = a | b exists, an add changes the steps of no
\* pipeline but the one it is called on: not those of c when called on a or
\* b, not those of a or b when called on c.
C9_CombineOwnsItsList ==
    lastOp.op = "add" /\ (\E c \in 1..Len(pipes) : IsCombination(c)) =>
        \A q \in 1..Len(pipes) :
            q # lastOp.self => Steps(q) = PrevSteps(q)

\* The part of C9 about the combination's own list: no add on another
\* pipeline changes the steps of a pipeline that | returned, and an add on
\* such a pipeline changes the steps of no other.
CombineListIsFresh ==
    lastOp.op = "add" =>
        \A c \in 1..Len(pipes) :
            IsCombination(c) =>
                /\ lastOp.self # c => Steps(c) = PrevSteps(c)
                /\ lastOp.self = c =>
                       \A q \in 1..Len(pipes) :
                           q # c => Steps(q) = PrevSteps(q)

----------------------------------------------------------------------------
(* Properties of invocation (specifications SpecCall and SpecCallFair) *)

\* The pipeline whose invocation is running or has finished.
Invoked == lastOp.self

InCall == lastOp.op = "call"

\* sn(...s2(s1(v))...) for the steps ss, a step that is a Pipeline standing
\* for the composition of its own steps; NoValue where a step raises.
RECURSIVE Compose(_, _, _)
Compose(ss, v, depth) ==
    IF ss = <<>> \/ v = NoValue
    THEN v
    ELSE LET s == Head(ss)
             r == IF IsPipeline(s)
                  THEN IF depth >= RecursionLimit
                       THEN NoValue
                       ELSE Compose(Steps(Deref(s)), v, depth + 1)
                  ELSE IF Fails(s, v) THEN NoValue ELSE ApplyFn(s, v)
         IN  Compose(Tail(ss), r, depth)

Prefix(p, k) == SubSeq(Steps(p), 1, k)

Positions(k) == [i \in 1..k |-> i]

\* C1: an invocation that returns has called every stored step once, in
\* stored order, each on the previous step's result, and returns
\* sn(...s2(s1(x))...); with no steps it returns x.
C1_CallComposesSteps ==
    InCall /\ status = "returned" =>
        /\ log = Positions(Len(Steps(Invoked)))
        /\ value = Compose(Steps(Invoked), InputValue(input), 1)
        /\ value # NoValue
        /\ Steps(Invoked) = <<>> => value = InputValue(input)

C1_Witness ==
    /\ InCall
    /\ status = "returned"
    /\ Len(Steps(Invoked)) >= 2
    /\ Steps(Invoked)[1] # Steps(Invoked)[2]
    /\ value.hist # <<>>

\* C2: when step k of an invocation raises, the invocation ends with that
\* failure and without a result, steps 1..k have each been called once in
\* order, and no later step is called; while no step has raised the
\* invocation goes on.
C2_FailFast ==
    InCall =>
        /\ log = Positions(Len(log))
        /\ Len(log) <= Len(Steps(Invoked))
        /\ status = "raised" =>
               /\ log # <<>>
               /\ Compose(Prefix(Invoked, Len(log) - 1), InputValue(input), 1)
                      # NoValue
               /\ Compose(Prefix(Invoked, Len(log)), InputValue(input), 1)
                      = NoValue
               /\ failure \in {"TypeError", "RecursionError"}
               /\ ~IsPipeline(Steps(Invoked)[Len(log)]) => failure = "TypeError"
               /\ value = NoValue
               /\ stack = <<>>
               /\ ~ENABLED (StepApply \/ StepEnter \/ StepReturn)
        /\ status = "running" /\ Len(stack) = 1 =>
               /\ failure = "none"
               /\ value = Compose(Prefix(Invoked, Len(log)), InputValue(input), 1)
               /\ value # NoValue
        /\ status = "returned" => failure = "none"

C2_Witness ==
    /\ InCall
    /\ status = "raised"
    /\ failure = "TypeError"
    /\ Len(log) < Len(Steps(Invoked))

\* Pipelines that are steps of p.
NestedIn(p) ==
    {Deref(Steps(p)[i]) : i \in {j \in 1..Len(Steps(p)) : IsPipeline(Steps(p)[j])}}

RECURSIVE ReachFrom(_, _)
ReachFrom(S, n) ==
    IF n = 0 THEN S ELSE ReachFrom(S \cup UNION {NestedIn(q) : q \in S}, n - 1)

\* Pipelines reached from p through one or more steps that are pipelines.
Reach(p) == ReachFrom(NestedIn(p), Len(pipes))

Acyclic(p) == \A q \in Reach(p) \cup {p} : q \notin Reach(q)

RECURSIVE Depth(_)
Depth(p) ==
    IF NestedIn(p) = {}
    THEN 1
    ELSE LET ds == {Depth(q) : q \in NestedIn(p)}
         IN  1 + CHOOSE d \in ds : \A e \in ds : e <= d

\* No pipeline under p contains itself, and the frames p needs fit the stack.
WellFounded(p) == Acyclic(p) /\ Depth(p) <= RecursionLimit

Completed == status = "returned" \/ (status = "raised" /\ failure = "TypeError")

\* C10 as stated: every invocation whose steps are functions or Pipelines
\* completes: it is never cut off by nested calls that do not come to an end.
C10_EveryCallCompletes == status = "raised" => failure = "TypeError"

\* C10: an invocation of a pipeline under which no pipeline contains itself,
\* nested no deeper than the recursion limit, comes to an end after finitely
\* many step applications, returning or raising a step function's failure.
C10_WellFoundedCallCompletes ==
    (InCall /\ status = "running" /\ WellFounded(Invoked)) ~> Completed

C10_Witness ==
    /\ InCall
    /\ status = "returned"
    /\ NestedIn(Invoked) # {}
    /\ WellFounded(Invoked)
    /\ \E q \in NestedIn(Invoked) : Steps(q) # <<>>

----------------------------------------------------------------------------
(* Three-way combination: (a | b) | c and a | (b | c) *)

Operands ==
    {CallableOf(f) : f \in Fns}
        \cup {PipelineOf(ss) : ss \in UNION {[1..k -> Fns] : k \in 0..MaxOperand}}

\* A callable put in front of the steps instead of behind them.
BinOrFront(l, r) ==
    IF l.kind = "TypeError" \/ r.kind = "TypeError"
    THEN TypeErr
    ELSE IF l.kind = "Pipeline"
         THEN PipelineOf(IF r.kind = "Pipeline"
                         THEN l.steps \o r.steps
                         ELSE <<r.fn>> \o l.steps)
         ELSE TypeErr

\* The expression l | r: Pipeline.__or__ when l is a Pipeline; a function has
\* no __or__ and Pipeline defines no __ror__, so any other l raises TypeError.
\* An operand that already raised makes the whole expression raise.
BinOr(l, r) ==
    IF l.kind = "TypeError" \/ r.kind = "TypeError"
    THEN TypeErr
    ELSE IF l.kind = "Pipeline"
         THEN PipelineOf(OrSteps(l.steps, r.kind = "Pipeline", r.steps, r.fn))
         ELSE TypeErr

InitOrCases ==
    /\ InitHeap
    /\ IdleCall
    /\ InitText
    /\ opA \in Operands
    /\ opB \in Operands
    /\ opC \in Operands
    /\ grp = NoGroup

GroupLeft ==
    /\ grp.left = Unset
    /\ grp' = [grp EXCEPT !.left = BinOr(BinOr(opA, opB), opC)]
    /\ UNCHANGED <<heapVars, lastOp, prev, callVars, textVars, opA, opB, opC>>

GroupRight ==
    /\ grp.right = Unset
    /\ grp' = [grp EXCEPT !.right = BinOr(opA, BinOr(opB, opC))]
    /\ UNCHANGED <<heapVars, lastOp, prev, callVars, textVars, opA, opB, opC>>

NextOr ==
    \/ GroupLeft
    \/ GroupRight

SpecOr == InitOrCases /\ [][NextOr]_vars

Grouped == grp.left # Unset /\ grp.right # Unset

\* What a Pipeline with the function steps ss returns on input x.
Output(ss, x) == Compose(ss, InputValue(x), 1)

SameEffect ==
    /\ grp.left.kind = "Pipeline"
    /\ grp.right.kind = "Pipeline"
    /\ grp.left.steps = grp.right.steps
    /\ \A x \in InputTypes :
           Output(grp.left.steps, x) = Output(grp.right.steps, x)

\* C5 as stated: for any a, b, c, each a Pipeline or a single step, both
\* groupings succeed and give pipelines with the same steps and output.
C5_AssociativeForAnyOperands == Grouped => SameEffect

\* C5: for Pipelines a and b and c a Pipeline or a single step, both
\* groupings succeed and give pipelines with the same steps and output.
C5_AssociativeForPipelines ==
    Grouped /\ opA.kind = "Pipeline" /\ opB.kind = "Pipeline" => SameEffect

C5_Witness ==
    /\ Grouped
    /\ opA.kind = "Pipeline"
    /\ opB.kind = "Pipeline"
    /\ opC.kind = "callable"
    /\ opA.steps # <<>>
    /\ opB.steps # <<>>
    /\ opA.steps # opB.steps
    /\ grp.left.steps = opA.steps \o opB.steps \o <<opC.fn>>

----------------------------------------------------------------------------
(* remove_repeated_characters *)

\* Characters of a text: two letters and the line break.
Char == {"a", "b", "\n"}

\* Length of the run of t[i] that starts at position i.
RECURSIVE RunLen(_, _)
RunLen(t, i) ==
    IF i < Len(t) /\ t[i + 1] = t[i] THEN 1 + RunLen(t, i + 1) ELSE 1

\* re.sub(r"(.)\1{2,}", r"\1\1", t) from position i on: the dot matches any
\* character but "\n", \1{2,} takes every further copy of it, at least two.
RECURSIVE ReSub(_, _)
ReSub(t, i) ==
    IF i > Len(t)
    THEN <<>>
    ELSE IF t[i] # "\n" /\ RunLen(t, i) >= 3
         THEN <<t[i], t[i]>> \o ReSub(t, i + RunLen(t, i))
         ELSE <<t[i]>> \o ReSub(t, i + 1)

remove_repeated_characters(t) == ReSub(t, 1)

InitTexts ==
    /\ InitHeap
    /\ IdleCall
    /\ InitOr
    /\ text \in UNION {[1..n -> Char] : n \in 0..MaxText}
    /\ out = <<"unset">>

RemoveRepeated ==
    /\ out = <<"unset">>
    /\ out' = remove_repeated_characters(text)
    /\ UNCHANGED <<heapVars, lastOp, prev, callVars, orVars, text>>

NextText == RemoveRepeated

SpecText == InitTexts /\ [][NextText]_vars

\* The characters of t that are not the third or a later one of their run.
RECURSIVE FirstTwoOfRuns(_, _)
FirstTwoOfRuns(t, i) ==
    IF i > Len(t)
    THEN <<>>
    ELSE IF i >= 3 /\ t[i - 1] = t[i] /\ t[i - 2] = t[i]
         THEN FirstTwoOfRuns(t, i + 1)
         ELSE <<t[i]>> \o FirstTwoOfRuns(t, i + 1)

NoRunOfThree(t) ==
    \A i \in 1..Len(t) : ~(i >= 3 /\ t[i - 1] = t[i] /\ t[i - 2] = t[i])

\* C8: every maximal run of 3 or more identical characters, line breaks
\* included, is reduced to 2, runs of 1 or 2 and the order of the characters
\* are kept, and the output has no run of 3 or more.
C8_RunsReducedToTwo ==
    out # <<"unset">> =>
        /\ out = FirstTwoOfRuns(text, 1)
        /\ NoRunOfThree(out)

\* The same for texts without a run of three line breaks.
RunsReducedExceptLineBreaks ==
    out # <<"unset">>
        /\ (\A i \in 3..Len(text) :
                ~(text[i] = "\n" /\ text[i - 1] = "\n" /\ text[i - 2] = "\n"))
        => /\ out = FirstTwoOfRuns(text, 1)
           /\ NoRunOfThree(out)

====
